---- MODULE Spec2Model ----
(***************************************************************************)
(* A model of the Mython lexer (src/mython/lexer.cpp, lexer.h) and of the  *)
(* runtime object model (src/mython/runtime.cpp).                          *)
(*                                                                         *)
(* Bytes are their ASCII codes, the input stream is a sequence of bytes    *)
(* with the read position and the three iostate bits of std::istream.      *)
(***************************************************************************)
EXTENDS Integers, Sequences, FiniteSets, TLC

VARIABLES
    input,                  \* the bytes behind the std::istream given to Lexer
    istr,                   \* the stream: [pos, eof, fail, bad]
    tokens_,                \* Lexer::tokens_
    global_indent_counter_, \* Lexer::global_indent_counter_
    current_token_it_,      \* Lexer::current_token_it_, as a 1-based index
    pc,                     \* "new", "loop", "done" (constructed), "error" (threw)
    thrown,                 \* the exception type the constructor threw, "" if none
    ret,                    \* the outcome of the last cursor call
    next_calls,             \* number of NextToken calls made so far
    classes,                \* the Class objects constructed so far, in order
    rt                      \* the last call into the runtime and its outcome

lexVars == <<input, istr, tokens_, global_indent_counter_, current_token_it_,
             pc, thrown, ret, next_calls>>

rtVars == <<classes, rt>>

----------------------------------------------------------------------------
(* Bytes *)

EOF == -1
TAB == 9
LF == 10
CR == 13
SPACE == 32
BANG == 33
DQUOTE == 34
HASH == 35
SQUOTE == 39
LESS == 60
EQUALS == 61
GREATER == 62
BACKSLASH == 92
UNDERSCORE == 95
INT_MAX == 2147483647
SPACES_PER_INDENT == 2

\* <cctype> in the "C" locale
isdigit(c) == c \in 48..57
isalpha(c) == c \in 65..90 \/ c \in 97..122
isalnum(c) == isalpha(c) \/ isdigit(c)
ispunct(c) == c \in 33..47 \/ c \in 58..64 \/ c \in 91..96 \/ c \in 123..126

----------------------------------------------------------------------------
(* std::istream over a fixed byte sequence `in` *)

NewStream == [pos |-> 0, eof |-> FALSE, fail |-> FALSE, bad |-> FALSE]

\* istream::good()
Good(s) == ~s.eof /\ ~s.fail /\ ~s.bad

\* istream::operator bool, i.e. !fail()
StreamOk(s) == ~s.fail /\ ~s.bad

\* istream::peek(): the sentry sets failbit on a stream that is not good; at
\* the end of the data eofbit alone is set.
Peek(in, s) ==
    IF ~Good(s) THEN [c |-> EOF, s |-> [s EXCEPT !.fail = TRUE]]
    ELSE IF s.pos >= Len(in) THEN [c |-> EOF, s |-> [s EXCEPT !.eof = TRUE]]
    ELSE [c |-> in[s.pos + 1], s |-> s]

\* istream::get(), istream::get(char&): on failure no byte is stored.
Get(in, s) ==
    IF ~Good(s) THEN [ok |-> FALSE, c |-> EOF, s |-> [s EXCEPT !.fail = TRUE]]
    ELSE IF s.pos >= Len(in)
         THEN [ok |-> FALSE, c |-> EOF, s |-> [s EXCEPT !.eof = TRUE, !.fail = TRUE]]
    ELSE [ok |-> TRUE, c |-> in[s.pos + 1], s |-> [s EXCEPT !.pos = s.pos + 1]]

\* istream::putback(c): clears eofbit first, then behaves as an unformatted
\* input function; a byte other than the one just read cannot be put back
\* into a read-only buffer (badbit).
Putback(in, s, c) ==
    LET t == [s EXCEPT !.eof = FALSE] IN
    IF ~Good(t) THEN [t EXCEPT !.fail = TRUE]
    ELSE IF t.pos > 0 /\ in[t.pos] = c THEN [t EXCEPT !.pos = t.pos - 1]
    ELSE [t EXCEPT !.bad = TRUE]

\* rdstate() != std::ios_base::eofbit
NotJustEof(s) == ~(s.eof /\ ~s.fail /\ ~s.bad)

----------------------------------------------------------------------------
(* Tokens *)

Tok(type) == [type |-> type]
TokV(type, value) == [type |-> type, value |-> value]

ValuedTypes == {"Number", "Id", "Char", "String"}

\* operator==(const Token&, const Token&)
TokenEq(lhs, rhs) ==
    IF lhs.type # rhs.type THEN FALSE
    ELSE IF lhs.type \in ValuedTypes THEN lhs.value = rhs.value
    ELSE TRUE

\* Lexer::keywords_map_
keywords_map_ ==
    (<<99, 108, 97, 115, 115>> :> Tok("Class")) @@
    (<<114, 101, 116, 117, 114, 110>> :> Tok("Return")) @@
    (<<105, 102>> :> Tok("If")) @@
    (<<101, 108, 115, 101>> :> Tok("Else")) @@
    (<<100, 101, 102>> :> Tok("Def")) @@
    (<<112, 114, 105, 110, 116>> :> Tok("Print")) @@
    (<<97, 110, 100>> :> Tok("And")) @@
    (<<111, 114>> :> Tok("Or")) @@
    (<<110, 111, 116>> :> Tok("Not")) @@
    (<<78, 111, 110, 101>> :> Tok("None")) @@
    (<<84, 114, 117, 101>> :> Tok("True")) @@
    (<<70, 97, 108, 115, 101>> :> Tok("False"))

----------------------------------------------------------------------------
(* The sub-parsers.  A lexer state L is [s, tokens, indent, err]: the      *)
(* stream, tokens_, global_indent_counter_ and the exception in flight.    *)

Throw(L, s, what) == [L EXCEPT !.s = s, !.err = what]

\* Lexer::TrimSpaces
RECURSIVE TrimSpaces(_, _)
TrimSpaces(in, s) ==
    LET p == Peek(in, s) IN
    IF p.c = SPACE THEN TrimSpaces(in, Get(in, p.s).s) ELSE p.s

\* The switch over esc_ch in ParseString
Escapes ==
    (110 :> LF) @@ (116 :> TAB) @@ (114 :> CR) @@
    (DQUOTE :> DQUOTE) @@ (SQUOTE :> SQUOTE) @@ (BACKSLASH :> BACKSLASH)

\* The while (istr.get(ch)) loop of ParseString; ch is the local `char ch`,
\* which keeps its previous value when get fails.
RECURSIVE StringLoop(_, _, _, _, _)
StringLoop(in, s, open_char, result, ch) ==
    LET g == Get(in, s) IN
    IF ~g.ok THEN [s |-> g.s, result |-> result, ch |-> ch, err |-> ""]
    ELSE IF g.c = open_char
         THEN [s |-> g.s, result |-> result, ch |-> g.c, err |-> ""]
    ELSE IF g.c = BACKSLASH
         THEN LET e == Get(in, g.s) IN
              IF e.ok
              THEN IF e.c \in DOMAIN Escapes
                   THEN StringLoop(in, e.s, open_char,
                                   Append(result, Escapes[e.c]), g.c)
                   ELSE [s |-> e.s, result |-> result, ch |-> g.c,
                         err |-> "logic_error"]
              ELSE [s |-> e.s, result |-> result, ch |-> g.c,
                    err |-> "LexerError"]
    ELSE IF g.c = LF \/ g.c = CR
         THEN [s |-> g.s, result |-> result, ch |-> g.c, err |-> "LexerError"]
    ELSE StringLoop(in, g.s, open_char, Append(result, g.c), g.c)

\* Lexer::ParseString.  `junk` is the value the uninitialized local `char ch`
\* happens to hold when the loop reads nothing.
ParseString(in, L, junk) ==
    LET p == Peek(in, L.s) IN
    IF p.c = EOF THEN [L EXCEPT !.s = p.s]
    ELSE LET g == Get(in, p.s) IN
         IF g.c = SQUOTE \/ g.c = DQUOTE
         THEN LET r == StringLoop(in, g.s, g.c, <<>>, junk) IN
              IF r.err # "" THEN Throw(L, r.s, r.err)
              ELSE IF g.c = r.ch
                   THEN [L EXCEPT !.s = r.s,
                                  !.tokens = Append(L.tokens, TokV("String", r.result))]
                   ELSE Throw(L, r.s, "LexerError")
         ELSE [L EXCEPT !.s = Putback(in, g.s, g.c)]

\* The while (istr.get(ch)) loop of ParseKeywords
RECURSIVE WordLoop(_, _, _)
WordLoop(in, s, keyword) ==
    LET g == Get(in, s) IN
    IF ~g.ok THEN [s |-> g.s, word |-> keyword]
    ELSE IF isalnum(g.c) \/ g.c = UNDERSCORE
         THEN WordLoop(in, g.s, Append(keyword, g.c))
    ELSE [s |-> Putback(in, g.s, g.c), word |-> keyword]

\* Lexer::ParseKeywords
ParseKeywords(in, L) ==
    LET p == Peek(in, L.s) IN
    IF p.c = EOF THEN [L EXCEPT !.s = p.s]
    ELSE IF isalpha(p.c) \/ p.c = UNDERSCORE
         THEN LET w == WordLoop(in, p.s, <<>>) IN
              [L EXCEPT !.s = w.s,
                        !.tokens = Append(L.tokens,
                            IF w.word \in DOMAIN keywords_map_
                            THEN keywords_map_[w.word]
                            ELSE TokV("Id", w.word))]
    ELSE [L EXCEPT !.s = p.s]

\* std::getline(istr, tmp_str, '\n'): through the next '\n', which is
\* extracted and dropped, or to the end of the data (eofbit).
GetLine(in, s) ==
    LET nls == {i \in (s.pos + 1)..Len(in) : in[i] = LF} IN
    IF nls = {} THEN [s EXCEPT !.pos = Len(in), !.eof = TRUE]
    ELSE [s EXCEPT !.pos = CHOOSE i \in nls : \A j \in nls : i <= j]

\* Lexer::ParseComments
ParseComments(in, L) ==
    LET p == Peek(in, L.s) IN
    IF p.c = HASH
    THEN LET g == GetLine(in, p.s) IN
         [L EXCEPT !.s = IF NotJustEof(g) THEN Putback(in, g, LF) ELSE g]
    ELSE [L EXCEPT !.s = p.s]

\* The compound operators recognised by ParseChars
Compound ==
    (EQUALS :> Tok("Eq")) @@ (BANG :> Tok("NotEq")) @@
    (GREATER :> Tok("GreaterOrEq")) @@ (LESS :> Tok("LessOrEq"))

\* A variant without the lookahead for '='
ParseChars_NoLookahead(in, L) ==
    LET p == Peek(in, L.s) IN
    IF p.c = EOF THEN [L EXCEPT !.s = p.s]
    ELSE LET g == Get(in, p.s) IN
         IF ispunct(g.c)
         THEN IF g.c = HASH
              THEN ParseComments(in, [L EXCEPT !.s = Putback(in, g.s, g.c)])
              ELSE [L EXCEPT !.s = g.s,
                             !.tokens = Append(L.tokens, TokV("Char", g.c))]
         ELSE [L EXCEPT !.s = Putback(in, g.s, g.c)]

\* Lexer::ParseChars
ParseChars(in, L) ==
    LET p == Peek(in, L.s) IN
    IF p.c = EOF THEN [L EXCEPT !.s = p.s]
    ELSE LET g == Get(in, p.s) IN
         IF ispunct(g.c)
         THEN IF g.c = HASH
              THEN ParseComments(in, [L EXCEPT !.s = Putback(in, g.s, g.c)])
              ELSE IF g.c \in DOMAIN Compound
                   THEN LET q == Peek(in, g.s) IN
                        IF q.c = EQUALS
                        THEN [L EXCEPT !.s = Get(in, q.s).s,
                                       !.tokens = Append(L.tokens, Compound[g.c])]
                        ELSE [L EXCEPT !.s = q.s,
                                       !.tokens = Append(L.tokens, TokV("Char", g.c))]
              ELSE [L EXCEPT !.s = g.s,
                             !.tokens = Append(L.tokens, TokV("Char", g.c))]
         ELSE [L EXCEPT !.s = Putback(in, g.s, g.c)]

\* The while (istr.get(ch)) loop of ParseNumbers
RECURSIVE DigitLoop(_, _, _)
DigitLoop(in, s, result) ==
    LET g == Get(in, s) IN
    IF ~g.ok THEN [s |-> g.s, digits |-> result]
    ELSE IF isdigit(g.c) THEN DigitLoop(in, g.s, Append(result, g.c))
    ELSE [s |-> Putback(in, g.s, g.c), digits |-> result]

\* std::stoi on a run of decimal digits, most significant first: the value,
\* or OutOfRange where std::stoi throws std::out_of_range (past INT_MAX).
OutOfRange == -1

RECURSIVE StoI(_, _)
StoI(digits, acc) ==
    IF digits = <<>> THEN acc
    ELSE LET d == Head(digits) - 48 IN
         IF acc > (INT_MAX - d) \div 10 THEN OutOfRange
         ELSE StoI(Tail(digits), 10 * acc + d)

\* Lexer::ParseNumbers
ParseNumbers(in, L) ==
    LET p == Peek(in, L.s) IN
    IF p.c = EOF THEN [L EXCEPT !.s = p.s]
    ELSE IF isdigit(p.c)
         THEN LET d == DigitLoop(in, p.s, <<>>)
                  num == StoI(d.digits, 0)
              IN
              IF num = OutOfRange THEN Throw(L, d.s, "out_of_range")
              ELSE [L EXCEPT !.s = d.s,
                             !.tokens = Append(L.tokens, TokV("Number", num))]
    ELSE [L EXCEPT !.s = p.s]

\* while (istr.get(ch) && (ch == ' ')) ++spaces_processed;
RECURSIVE SpaceLoop(_, _, _, _)
SpaceLoop(in, s, n, ch) ==
    LET g == Get(in, s) IN
    IF ~g.ok THEN [s |-> g.s, n |-> n, ch |-> ch]
    ELSE IF g.c = SPACE THEN SpaceLoop(in, g.s, n + 1, g.c)
    ELSE [s |-> g.s, n |-> n, ch |-> g.c]

\* A variant that emits one token per space
RECURSIVE IndentLoop_PerSpace(_, _, _, _, _)
IndentLoop_PerSpace(spaces_processed, toks, counter, tok, delta) ==
    IF spaces_processed > 0
    THEN IndentLoop_PerSpace(spaces_processed - 1, Append(toks, tok),
                             counter + delta, tok, delta)
    ELSE [tokens |-> toks, indent |-> counter]

\* The two while (spaces_processed > 0) loops of ParseIndent: `delta` is +1
\* with Indent, -1 with Dedent.
RECURSIVE IndentLoop(_, _, _, _, _)
IndentLoop(spaces_processed, toks, counter, tok, delta) ==
    IF spaces_processed > 0
    THEN IndentLoop(spaces_processed - SPACES_PER_INDENT, Append(toks, tok),
                    counter + delta, tok, delta)
    ELSE [tokens |-> toks, indent |-> counter]

\* The comparison of the counted spaces with the current depth in ParseIndent
AdjustIndent(toks, counter, spaces_processed) ==
    IF counter * SPACES_PER_INDENT < spaces_processed
    THEN IndentLoop(spaces_processed - counter * SPACES_PER_INDENT,
                    toks, counter, Tok("Indent"), 1)
    ELSE IF counter * SPACES_PER_INDENT > spaces_processed
    THEN IndentLoop(counter * SPACES_PER_INDENT - spaces_processed,
                    toks, counter, Tok("Dedent"), -1)
    ELSE [tokens |-> toks, indent |-> counter]

\* Lexer::ParseIndent
ParseIndent(in, L) ==
    LET p == Peek(in, L.s) IN
    IF p.c = EOF THEN [L EXCEPT !.s = p.s]
    ELSE LET sp == SpaceLoop(in, p.s, 0, 0)
             s1 == IF NotJustEof(sp.s) THEN Putback(in, sp.s, sp.ch) ELSE sp.s
         IN
         IF NotJustEof(sp.s) /\ sp.ch = LF THEN [L EXCEPT !.s = s1]
         ELSE LET a == AdjustIndent(L.tokens, L.indent, sp.n) IN
              IF a.indent < 0 THEN Throw(L, s1, "LexerError")
              ELSE [L EXCEPT !.s = s1, !.tokens = a.tokens, !.indent = a.indent]

\* A variant that never emits the Newline
WithNewline_Never(toks) == toks

\* A variant that emits the Newline whatever the last token is
WithNewline_Always(toks) == Append(toks, Tok("Newline"))

\* if (!tokens_.empty() && !tokens_.back().Is<Newline>()) emplace_back(Newline)
WithNewline(toks) ==
    IF toks # <<>> /\ toks[Len(toks)].type # "Newline"
    THEN Append(toks, Tok("Newline"))
    ELSE toks

\* Lexer::ParseNewLine
ParseNewLine(in, L) ==
    LET p == Peek(in, L.s) IN
    IF p.c = LF
    THEN ParseIndent(in, [L EXCEPT !.s = Get(in, p.s).s,
                                   !.tokens = WithNewline(L.tokens)])
    ELSE [L EXCEPT !.s = p.s]

\* The calls of one iteration of the while (istr) loop, in order
LoopSteps == <<"ParseString", "ParseKeywords", "ParseChars", "ParseNumbers",
               "TrimSpaces", "ParseNewLine">>

\* One call of the loop body
Step(name, in, L, junk) ==
    CASE name = "ParseString" -> ParseString(in, L, junk)
      [] name = "ParseKeywords" -> ParseKeywords(in, L)
      [] name = "ParseChars" -> ParseChars(in, L)
      [] name = "ParseNumbers" -> ParseNumbers(in, L)
      [] name = "TrimSpaces" -> [L EXCEPT !.s = TrimSpaces(in, L.s)]
      [] name = "ParseNewLine" -> ParseNewLine(in, L)

\* The calls `steps` one after the other; an exception ends them.
RECURSIVE RunSteps(_, _, _, _)
RunSteps(steps, in, L, junk) ==
    IF steps = <<>> \/ L.err # "" THEN L
    ELSE RunSteps(Tail(steps), in, Step(Head(steps), in, L, junk), junk)

\* The calls of one iteration before ParseNewLine
BeforeNewLine(in, L, junk) == RunSteps(SubSeq(LoopSteps, 1, 5), in, L, junk)

\* One iteration of the while (istr) loop of ParseInputStream
LoopBody(in, L, junk) == RunSteps(LoopSteps, in, L, junk)

\* A variant that leaves the open indentation levels unclosed
CloseIndents_None(toks, counter) == toks

\* while (global_indent_counter_ > 0) { emplace_back(Dedent); --counter; }
RECURSIVE CloseIndents(_, _)
CloseIndents(toks, counter) ==
    IF counter > 0 THEN CloseIndents(Append(toks, Tok("Dedent")), counter - 1)
    ELSE toks

\* A variant that closes the vector without the closing Newline
Finalize_NoNewline(toks, counter) ==
    Append(CloseIndents(toks, counter), Tok("Eof"))

\* The end of ParseInputStream, after the loop
Finalize(toks, counter) ==
    Append(CloseIndents(WithNewline(toks), counter), Tok("Eof"))

\* A variant that wraps around to the first token after the last
Advance_Wrap(toks, it) == IF it + 1 = Len(toks) + 1 THEN 1 ELSE it + 1

\* The step of Lexer::NextToken on the cursor
Advance(toks, it) == IF it + 1 = Len(toks) + 1 THEN it ELSE it + 1

----------------------------------------------------------------------------
(* The runtime object model.  An ObjectHolder is a record with its kind:   *)
(* the empty handle, a Number, a String (its bytes), a Bool, or a          *)
(* ClassInstance with the index of its class in `classes`.  A Method is    *)
(* [name, formal_params]; its body is outside the runtime, so what a body  *)
(* returns is an input of the call.  A const Method* is [cls, idx]: the    *)
(* idx-th element of methods_ of class cls.                                *)

None == [kind |-> "None"]
Number(v) == [kind |-> "Number", number |-> v]
String(v) == [kind |-> "String", string |-> v]
Bool(v) == [kind |-> "Bool", bool |-> v]
ClassInstance(c) == [kind |-> "ClassInstance", cls |-> c]

nullptr == [cls |-> 0, idx |-> 0]

MethodNames == {"__eq__", "__lt__"}

\* A handle that holds the Class object c itself
ClassObject(c) == [kind |-> "Class", cls |-> c]

\* A vftable_ without entries
EmptyTable == [name \in MethodNames |-> nullptr]

\* for (const auto& method : methods) vftable_[method.name] = &method;
\* over methods_ of class c, from its i-th element on
RECURSIVE Fill(_, _, _, _)
Fill(vftable, c, methods, i) ==
    IF i > Len(methods) THEN vftable
    ELSE Fill([vftable EXCEPT ![methods[i].name] = [cls |-> c, idx |-> i]],
              c, methods, i + 1)

\* The vftable_ seeded from the parent: the parent's own methods_
Seed(cs, parent) ==
    IF parent # 0 THEN Fill(EmptyTable, parent, cs[parent].methods_, 1)
    ELSE EmptyTable

\* Class::Class: the class that becomes element Len(cs) + 1 of cs; parent is
\* an index into cs, 0 for nullptr
Class(cs, methods, parent) ==
    [methods_ |-> methods, parent_ |-> parent,
     vftable_ |-> Fill(Seed(cs, parent), Len(cs) + 1, methods, 1)]

\* Class::GetMethod on class c
GetMethod(cs, c, name) ==
    IF cs[c].vftable_[name] # nullptr THEN cs[c].vftable_[name] ELSE nullptr

\* *method_ptr
Deref(cs, method_ptr) == cs[method_ptr.cls].methods_[method_ptr.idx]

\* ClassInstance::HasMethod on an instance of class c
HasMethod(cs, c, method, argument_count) ==
    /\ GetMethod(cs, c, method) # nullptr
    /\ Len(Deref(cs, GetMethod(cs, c, method)).formal_params) = argument_count

\* closure[formal_params[i]] = actual_args[i], from the i-th parameter on
RECURSIVE Bind(_, _, _, _)
Bind(closure, formal_params, actual_args, i) ==
    IF i > Len(formal_params) THEN closure
    ELSE Bind((formal_params[i] :> actual_args[i]) @@ closure,
              formal_params, actual_args, i + 1)

\* A variant that builds the closure without binding self
Call_NoSelf(cs, self, method, actual_args, result) ==
    IF HasMethod(cs, self.cls, method, Len(actual_args))
    THEN [res |-> result, threw |-> "",
          calls |-> <<[method |-> GetMethod(cs, self.cls, method),
                       closure |-> Bind(<<>>,
                                        Deref(cs, GetMethod(cs, self.cls, method)).formal_params,
                                        actual_args, 1),
                       result |-> result]>>]
    ELSE [res |-> None, threw |-> "runtime_error", calls |-> <<>>]

\* ClassInstance::Call on the instance `self`; `result` is what the body
\* returns.  The outcome is the returned handle or the exception, and the
\* bodies executed.
Call(cs, self, method, actual_args, result) ==
    IF HasMethod(cs, self.cls, method, Len(actual_args))
    THEN [res |-> result, threw |-> "",
          calls |-> <<[method |-> GetMethod(cs, self.cls, method),
                       closure |-> Bind("self" :> self,
                                        Deref(cs, GetMethod(cs, self.cls, method)).formal_params,
                                        actual_args, 1),
                       result |-> result]>>]
    ELSE [res |-> None, threw |-> "runtime_error", calls |-> <<>>]

\* ClassInstance::Call and the receiver's fields_, which hold `fields` at the
\* call: Call itself never writes them, an executed body leaves them as
\* `after`.
CallWithFields(r, fields, after) ==
    [res |-> r.res, threw |-> r.threw, calls |-> r.calls,
     fields |-> IF r.calls # <<>> THEN after ELSE fields]

\* A comparison ends with "true", "false", "runtime_error", or, after
\* undefined behaviour, with whatever ub stands for.
BoolStr(b) == IF b THEN "true" ELSE "false"
Returns(b) == [res |-> BoolStr(b), calls |-> <<>>]

\* result.TryAs<Bool>()->GetValue(): a null pointer is dereferenced when the
\* body returned something else than a Bool
GetBool(r, ub) ==
    [res |-> IF r.threw # "" THEN r.threw
             ELSE IF r.res.kind = "Bool" THEN BoolStr(r.res.bool)
             ELSE ub,
     calls |-> r.calls]

\* A variant that takes only positive numbers for true
IsTrue_Positive(object) ==
    IF object.kind = "None" THEN FALSE
    ELSE \/ object.kind = "Number" /\ object.number > 0
         \/ object.kind = "Bool" /\ object.bool = TRUE
         \/ object.kind = "String" /\ Len(object.string) # 0

\* runtime::IsTrue
IsTrue(object) ==
    IF object.kind = "None" THEN FALSE
    ELSE \/ object.kind = "Number" /\ object.number # 0
         \/ object.kind = "Bool" /\ object.bool = TRUE
         \/ object.kind = "String" /\ Len(object.string) # 0

\* std::string operator< : lexicographic on the bytes
RECURSIVE StringLess(_, _)
StringLess(a, b) ==
    IF b = <<>> THEN FALSE
    ELSE IF a = <<>> THEN TRUE
    ELSE IF Head(a) # Head(b) THEN Head(a) < Head(b)
    ELSE StringLess(Tail(a), Tail(b))

\* A variant that takes one empty handle for equality with anything
Equal_EitherEmpty(cs, lhs, rhs, result, ub) ==
    IF lhs.kind = "None" \/ rhs.kind = "None" THEN Returns(TRUE)
    ELSE IF lhs.kind = "Number" /\ rhs.kind = "Number"
         THEN Returns(lhs.number = rhs.number)
    ELSE IF lhs.kind = "String" /\ rhs.kind = "String"
         THEN Returns(lhs.string = rhs.string)
    ELSE IF lhs.kind = "Bool" /\ rhs.kind = "Bool"
         THEN Returns(lhs.bool = rhs.bool)
    ELSE IF lhs.kind = "ClassInstance" /\ HasMethod(cs, lhs.cls, "__eq__", 1)
         THEN GetBool(Call(cs, lhs, "__eq__", <<rhs>>, result), ub)
    ELSE [res |-> "runtime_error", calls |-> <<>>]

\* runtime::Equal
Equal(cs, lhs, rhs, result, ub) ==
    IF lhs.kind = "None" /\ rhs.kind = "None" THEN Returns(TRUE)
    ELSE IF lhs.kind = "Number" /\ rhs.kind = "Number"
         THEN Returns(lhs.number = rhs.number)
    ELSE IF lhs.kind = "String" /\ rhs.kind = "String"
         THEN Returns(lhs.string = rhs.string)
    ELSE IF lhs.kind = "Bool" /\ rhs.kind = "Bool"
         THEN Returns(lhs.bool = rhs.bool)
    ELSE IF lhs.kind = "ClassInstance" /\ HasMethod(cs, lhs.cls, "__eq__", 1)
         THEN GetBool(Call(cs, lhs, "__eq__", <<rhs>>, result), ub)
    ELSE [res |-> "runtime_error", calls |-> <<>>]

\* A variant with the both-empty case of Equal
Less_EmptyFalse(cs, lhs, rhs, result, ub) ==
    IF lhs.kind = "None" /\ rhs.kind = "None" THEN Returns(FALSE)
    ELSE IF lhs.kind = "Number" /\ rhs.kind = "Number"
         THEN Returns(lhs.number < rhs.number)
    ELSE IF lhs.kind = "String" /\ rhs.kind = "String"
         THEN Returns(StringLess(lhs.string, rhs.string))
    ELSE IF lhs.kind = "Bool" /\ rhs.kind = "Bool"
         THEN Returns(~lhs.bool /\ rhs.bool)
    ELSE IF lhs.kind = "ClassInstance" /\ HasMethod(cs, lhs.cls, "__lt__", 1)
         THEN GetBool(Call(cs, lhs, "__lt__", <<rhs>>, result), ub)
    ELSE [res |-> "runtime_error", calls |-> <<>>]

\* runtime::Less
Less(cs, lhs, rhs, result, ub) ==
    IF lhs.kind = "Number" /\ rhs.kind = "Number"
    THEN Returns(lhs.number < rhs.number)
    ELSE IF lhs.kind = "String" /\ rhs.kind = "String"
         THEN Returns(StringLess(lhs.string, rhs.string))
    ELSE IF lhs.kind = "Bool" /\ rhs.kind = "Bool"
         THEN Returns(~lhs.bool /\ rhs.bool)
    ELSE IF lhs.kind = "ClassInstance" /\ HasMethod(cs, lhs.cls, "__lt__", 1)
         THEN GetBool(Call(cs, lhs, "__lt__", <<rhs>>, result), ub)
    ELSE [res |-> "runtime_error", calls |-> <<>>]

\* operator! on the outcome of a comparison
Not(r) == [r EXCEPT !.res = IF r.res = "true" THEN "false"
                              ELSE IF r.res = "false" THEN "true"
                              ELSE r.res]

\* A variant that evaluates e whenever l returned
OrElse_Both(l, e) ==
    IF l.res \notin {"true", "false"} THEN l
    ELSE [res |-> IF l.res = "true" THEN "true" ELSE e.res,
          calls |-> l.calls \o e.calls]

\* l || e: e is evaluated only when l returned false
OrElse(l, e) ==
    IF l.res # "false" THEN l
    ELSE [res |-> e.res, calls |-> l.calls \o e.calls]

\* runtime::NotEqual
NotEqual(cs, lhs, rhs, result, ub) == Not(Equal(cs, lhs, rhs, result, ub))

\* A variant that is the negation of Less alone
Greater_NotLess(cs, lhs, rhs, results, ub) ==
    Not(Less(cs, lhs, rhs, results[1], ub))

\* runtime::Greater; results are what the bodies called first and second
\* return
Greater(cs, lhs, rhs, results, ub) ==
    Not(OrElse(Less(cs, lhs, rhs, results[1], ub),
               Equal(cs, lhs, rhs, results[2], ub)))

\* runtime::LessOrEqual
LessOrEqual(cs, lhs, rhs, results, ub) ==
    OrElse(Less(cs, lhs, rhs, results[1], ub),
           Equal(cs, lhs, rhs, results[2], ub))

\* runtime::GreaterOrEqual
GreaterOrEqual(cs, lhs, rhs, result, ub) == Not(Less(cs, lhs, rhs, result, ub))

----------------------------------------------------------------------------
(* Bounds and inputs *)

MaxLen == 4        \* length of the inputs enumerated over Alphabet
MaxLines == 2      \* lines after the first in the line-structured inputs
MaxSpaces == 4     \* leading spaces of a line in the line-structured inputs
MaxCursorLen == 2  \* length of the enumerated inputs of the cursor runs
MaxCalls == 4      \* NextToken calls made on a constructed lexer

\* tab, '\n', ' ', '"', '#', '1', '=', '\', 'a'
Alphabet == {TAB, LF, SPACE, DQUOTE, HASH, 49, EQUALS, BACKSLASH, 97}

SeqsUpTo(S, n) == UNION {[1..k -> S] : k \in 0..n}

ShortInputs == SeqsUpTo(Alphabet, MaxLen)

\* A line is <<n, body>>: n spaces, then a statement `a`, a comment `#` or
\* nothing, then '\n'.
LineBodies == {<<97>>, <<HASH>>, <<>>}
Spaces(n) == [i \in 1..n |-> SPACE]
Line(l) == Spaces(l[1]) \o l[2] \o <<LF>>

RECURSIVE Concat(_)
Concat(ls) == IF ls = <<>> THEN <<>> ELSE Line(Head(ls)) \o Concat(Tail(ls))

\* "a\n" followed by up to MaxLines lines
LineInputs ==
    {<<97, LF>> \o Concat(ls) : ls \in SeqsUpTo((0..MaxSpaces) \X LineBodies, MaxLines)}

Samples == {
    \* x = 42\n
    <<120, 32, 61, 32, 52, 50, 10>>,
    \* if x:\n  y = 1\n
    <<105, 102, 32, 120, 58, 10, 32, 32, 121, 32, 61, 32, 49, 10>>,
    \* s = "a\nb"\n  (backslash, n)
    <<115, 32, 61, 32, 34, 97, 92, 110, 98, 34, 10>>,
    \* a <= b != c\n
    <<97, 32, 60, 61, 32, 98, 32, 33, 61, 32, 99, 10>>,
    \* 2147483647
    <<50, 49, 52, 55, 52, 56, 51, 54, 52, 55>>,
    \* 2147483648
    <<50, 49, 52, 55, 52, 56, 51, 54, 52, 56>>,
    \* 'a<CR>b'
    <<39, 97, 13, 98, 39>>,
    \* '\'
    <<39, 92, 39>>,
    \* class A:\n  def f():\n    return None\n
    <<99, 108, 97, 115, 115, 32, 65, 58, 10, 32, 32, 100, 101, 102, 32, 102,
      40, 41, 58, 10, 32, 32, 32, 32, 114, 101, 116, 117, 114, 110, 32, 78,
      111, 110, 101, 10>>,
    \* print not True or False and x_1 else y
    <<112, 114, 105, 110, 116, 32, 110, 111, 116, 32, 84, 114, 117, 101, 32,
      111, 114, 32, 70, 97, 108, 115, 101, 32, 97, 110, 100, 32, 120, 95, 49,
      32, 101, 108, 115, 101, 32, 121>>,
    \* == != >= <= = ! > <
    <<61, 61, 32, 33, 61, 32, 62, 61, 32, 60, 61, 32, 61, 32, 33, 32, 62, 32, 60>>,
    \* a<CR>
    <<97, 13>>
}

Inputs == ShortInputs \cup LineInputs \cup Samples

CursorInputs == SeqsUpTo(Alphabet, MaxCursorLen) \cup Samples

\* What the uninitialized `char ch` of ParseString may hold: any byte; only
\* its equality with the opening quote is ever tested.
JunkBytes == {0, SQUOTE, DQUOTE}

\* The token types and tokens the cursor runs expect
ExpectTypes == {"Eof", "Newline", "Id"}
ExpectTokens == {TokV("Id", <<97>>), TokV("Char", EQUALS)}

NoToken == Tok("none")
NoRet == [op |-> "none", arg |-> NoToken, ok |-> TRUE, tok |-> NoToken]

MaxClasses == 3     \* length of the inheritance chains of the dispatch runs
MaxCmpClasses == 2  \* length of the inheritance chains of the comparison runs

\* A class declares each name of MethodNames at most once, without
\* parameters or with the one parameter `rhs`; its methods_ lists __eq__
\* before __lt__.
ParamLists == {<<>>, <<"rhs">>}
Declarations == [MethodNames -> {<<>>} \cup {<<ps>> : ps \in ParamLists}]
Declared(d, name) ==
    IF d[name] = <<>> THEN <<>>
    ELSE <<[name |-> name, formal_params |-> d[name][1]]>>
ClassBodies == {Declared(d, "__eq__") \o Declared(d, "__lt__") : d \in Declarations}

\* The handles the comparisons are called with
Builtins == {None, Number(0), Number(1), String(<<>>), String(<<97>>),
             Bool(FALSE), Bool(TRUE)}
Handles(cs) == Builtins \cup {ClassInstance(c) : c \in 1..Len(cs)}

\* What a method body may return, and what may follow the dereference of a
\* null pointer
BodyResults == {Bool(FALSE), Bool(TRUE), None}
UBOutcomes == {"true", "false", "crash"}
ArgumentCounts == {0, 1, 2}

\* The actual arguments of ClassInstance::Call and the receiver's fields_
ArgValues == {Number(0), Number(1)}
ActualArgs == UNION {[1..n -> ArgValues] : n \in ArgumentCounts}
FieldValues == {[x |-> Number(0)], [x |-> Number(1)]}

\* The handles IsTrue is called with
TestedHandles(cs) ==
    Handles(cs) \cup {Number(-1)} \cup {ClassObject(c) : c \in 1..Len(cs)}

NoCall == [op |-> "none", self |-> None, arg |-> None, res |-> "", calls |-> <<>>]

----------------------------------------------------------------------------
(* The lexer as a state machine *)

InitWith(ins) ==
    /\ input \in ins
    /\ istr = NewStream
    /\ tokens_ = <<>>
    /\ global_indent_counter_ = 0
    /\ current_token_it_ = 0
    /\ pc = "new"
    /\ thrown = ""
    /\ ret = NoRet
    /\ next_calls = 0
    /\ classes = <<>>
    /\ rt = NoCall

\* The lexer state the sub-parsers work on
Cur == [s |-> istr, tokens |-> tokens_, indent |-> global_indent_counter_,
        err |-> ""]

\* Lexer::Lexer entering ParseInputStream, up to the first TrimSpaces
Construct ==
    /\ pc = "new"
    /\ global_indent_counter_' = 0
    /\ tokens_' = <<>>
    /\ current_token_it_' = 0
    /\ istr' = TrimSpaces(input, istr)
    /\ pc' = "loop"
    /\ UNCHANGED <<input, thrown, ret, next_calls>>
    /\ UNCHANGED rtVars

\* The lexer after the calls that produced the lexer state r
Resume(r) ==
    /\ istr' = r.s
    /\ tokens_' = r.tokens
    /\ global_indent_counter_' = r.indent
    /\ thrown' = r.err
    /\ pc' = IF r.err # "" THEN "error" ELSE "loop"

\* One iteration of while (istr) { ... }
Iterate ==
    /\ pc = "loop"
    /\ StreamOk(istr)
    /\ \E junk \in JunkBytes : Resume(LoopBody(input, Cur, junk))
    /\ UNCHANGED <<input, current_token_it_, ret, next_calls>>
    /\ UNCHANGED rtVars

\* The loop has ended: the closing Newline, Dedents and Eof
Finish ==
    /\ pc = "loop"
    /\ ~StreamOk(istr)
    /\ tokens_' = Finalize(tokens_, global_indent_counter_)
    /\ global_indent_counter_' =
          IF global_indent_counter_ > 0 THEN 0 ELSE global_indent_counter_
    /\ current_token_it_' = 1
    /\ pc' = "done"
    /\ UNCHANGED <<input, istr, thrown, ret, next_calls>>
    /\ UNCHANGED rtVars

\* Lexer::CurrentToken
CurrentToken ==
    /\ pc = "done"
    /\ ret' = [op |-> "CurrentToken", arg |-> NoToken, ok |-> TRUE,
               tok |-> tokens_[current_token_it_]]
    /\ UNCHANGED <<input, istr, tokens_, global_indent_counter_,
                   current_token_it_, pc, thrown, next_calls>>
    /\ UNCHANGED rtVars

\* Lexer::NextToken
NextToken ==
    /\ pc = "done"
    /\ next_calls < MaxCalls
    /\ current_token_it_' = Advance(tokens_, current_token_it_)
    /\ ret' = [op |-> "NextToken", arg |-> NoToken, ok |-> TRUE,
               tok |-> tokens_[current_token_it_']]
    /\ next_calls' = next_calls + 1
    /\ UNCHANGED <<input, istr, tokens_, global_indent_counter_, pc, thrown>>
    /\ UNCHANGED rtVars

\* Lexer::Expect<T>() on the token under the cursor `it`
ExpectResult(op, T, it) ==
    IF tokens_[it].type # T
    THEN [op |-> op, arg |-> Tok(T), ok |-> FALSE, tok |-> NoToken]
    ELSE [op |-> op, arg |-> Tok(T), ok |-> TRUE, tok |-> tokens_[it]]

\* Lexer::Expect<T>(value) on the token under the cursor `it`
ExpectValueResult(op, other_token, it) ==
    IF ~TokenEq(tokens_[it], other_token)
    THEN [op |-> op, arg |-> other_token, ok |-> FALSE, tok |-> NoToken]
    ELSE [op |-> op, arg |-> other_token, ok |-> TRUE, tok |-> NoToken]

\* A variant that moves the cursor as NextToken does after the check
Expect_Advancing ==
    /\ pc = "done"
    /\ \E T \in ExpectTypes : ret' = ExpectResult("Expect", T, current_token_it_)
    /\ current_token_it_' = Advance(tokens_, current_token_it_)
    /\ UNCHANGED <<input, istr, tokens_, global_indent_counter_,
                   pc, thrown, next_calls>>
    /\ UNCHANGED rtVars

\* Lexer::Expect<T>()
Expect ==
    /\ pc = "done"
    /\ \E T \in ExpectTypes : ret' = ExpectResult("Expect", T, current_token_it_)
    /\ UNCHANGED <<input, istr, tokens_, global_indent_counter_,
                   current_token_it_, pc, thrown, next_calls>>
    /\ UNCHANGED rtVars

\* Lexer::Expect<T>(value)
ExpectValue ==
    /\ pc = "done"
    /\ \E t \in ExpectTokens :
          ret' = ExpectValueResult("ExpectValue", t, current_token_it_)
    /\ UNCHANGED <<input, istr, tokens_, global_indent_counter_,
                   current_token_it_, pc, thrown, next_calls>>
    /\ UNCHANGED rtVars

\* Lexer::ExpectNext<T>()
ExpectNext ==
    /\ pc = "done"
    /\ next_calls < MaxCalls
    /\ current_token_it_' = Advance(tokens_, current_token_it_)
    /\ \E T \in ExpectTypes : ret' = ExpectResult("ExpectNext", T, current_token_it_')
    /\ next_calls' = next_calls + 1
    /\ UNCHANGED <<input, istr, tokens_, global_indent_counter_, pc, thrown>>
    /\ UNCHANGED rtVars

\* Lexer::ExpectNext<T>(value)
ExpectNextValue ==
    /\ pc = "done"
    /\ next_calls < MaxCalls
    /\ current_token_it_' = Advance(tokens_, current_token_it_)
    /\ \E t \in ExpectTokens :
          ret' = ExpectValueResult("ExpectNextValue", t, current_token_it_')
    /\ next_calls' = next_calls + 1
    /\ UNCHANGED <<input, istr, tokens_, global_indent_counter_, pc, thrown>>
    /\ UNCHANGED rtVars

----------------------------------------------------------------------------
(* The runtime as a state machine.  Each new class derives from the class  *)
(* declared before it, so that `classes` is one inheritance chain with its *)
(* most derived class last.                                                *)

\* A class declaration: Class::Class with the last class as parent
DefineClassUpTo(limit) ==
    /\ Len(classes) < limit
    /\ \E methods \in ClassBodies :
          classes' = Append(classes, Class(classes, methods, Len(classes)))
    /\ rt' = NoCall
    /\ UNCHANGED lexVars

DefineClass == DefineClassUpTo(MaxClasses)

DefineComparedClass == DefineClassUpTo(MaxCmpClasses)

\* No call has been made since the last class declaration.  A call leaves
\* `classes` as it is, so the calls of a run are independent of each other
\* and each is made from this state.
Idle == rt.op = "none"

\* The runtime after a call
Called(op, self, arg, r) ==
    /\ rt' = [op |-> op, self |-> self, arg |-> arg, res |-> r.res,
              calls |-> r.calls]
    /\ UNCHANGED <<classes, lexVars>>

\* Class::GetMethod
CallGetMethod ==
    /\ Idle
    /\ \E c \in 1..Len(classes), name \in MethodNames :
           Called("GetMethod", c, name,
                  [res |-> GetMethod(classes, c, name), calls |-> <<>>])

\* ClassInstance::HasMethod
CallHasMethod ==
    /\ Idle
    /\ \E c \in 1..Len(classes), name \in MethodNames, n \in ArgumentCounts :
           Called("HasMethod", c, <<name, n>>,
                  [res |-> HasMethod(classes, c, name, n), calls |-> <<>>])

\* runtime::Equal
CallEqual ==
    /\ Idle
    /\ \E lhs \in Handles(classes), rhs \in Handles(classes),
          result \in BodyResults, ub \in UBOutcomes :
           Called("Equal", lhs, rhs, Equal(classes, lhs, rhs, result, ub))

\* runtime::NotEqual
CallNotEqual ==
    /\ Idle
    /\ \E lhs \in Handles(classes), rhs \in Handles(classes),
          result \in BodyResults, ub \in UBOutcomes :
           Called("NotEqual", lhs, rhs, NotEqual(classes, lhs, rhs, result, ub))

\* runtime::Less
CallLess ==
    /\ Idle
    /\ \E lhs \in Handles(classes), rhs \in Handles(classes),
          result \in BodyResults, ub \in UBOutcomes :
           Called("Less", lhs, rhs, Less(classes, lhs, rhs, result, ub))

\* runtime::Greater
CallGreater ==
    /\ Idle
    /\ \E lhs \in Handles(classes), rhs \in Handles(classes),
          results \in [1..2 -> BodyResults], ub \in UBOutcomes :
           Called("Greater", lhs, rhs, Greater(classes, lhs, rhs, results, ub))

\* runtime::LessOrEqual
CallLessOrEqual ==
    /\ Idle
    /\ \E lhs \in Handles(classes), rhs \in Handles(classes),
          results \in [1..2 -> BodyResults], ub \in UBOutcomes :
           Called("LessOrEqual", lhs, rhs,
                  LessOrEqual(classes, lhs, rhs, results, ub))

\* runtime::GreaterOrEqual
CallGreaterOrEqual ==
    /\ Idle
    /\ \E lhs \in Handles(classes), rhs \in Handles(classes),
          result \in BodyResults, ub \in UBOutcomes :
           Called("GreaterOrEqual", lhs, rhs,
                  GreaterOrEqual(classes, lhs, rhs, result, ub))

\* ClassInstance::Call
CallCall ==
    /\ Idle
    /\ \E c \in 1..Len(classes), method \in MethodNames,
          actual_args \in ActualArgs, result \in BodyResults,
          fields \in FieldValues, after \in FieldValues :
           rt' = [op |-> "Call", self |-> ClassInstance(c),
                  arg |-> <<method, actual_args>>, fields |-> fields,
                  res |-> CallWithFields(
                              Call(classes, ClassInstance(c), method,
                                   actual_args, result),
                              fields, after),
                  calls |-> <<>>]
    /\ UNCHANGED <<classes, lexVars>>

\* runtime::IsTrue
CallIsTrue ==
    /\ Idle
    /\ \E object \in TestedHandles(classes) :
           Called("IsTrue", object, None, Returns(IsTrue(object)))

vars == <<lexVars, rtVars>>

Init == InitWith(Inputs)

Next == Construct \/ Iterate \/ Finish

\* Construction of a Lexer over every input of Inputs
Spec == Init /\ [][Next]_vars

InitCursor == InitWith(CursorInputs)

NextCursor ==
    \/ Construct \/ Iterate \/ Finish
    \/ CurrentToken \/ NextToken
    \/ Expect \/ ExpectValue \/ ExpectNext \/ ExpectNextValue

\* Construction followed by calls of the cursor interface
SpecCursor == InitCursor /\ [][NextCursor]_vars

InitRuntime == InitWith({<<>>})

NextRuntime == DefineClass \/ CallGetMethod \/ CallHasMethod

\* Class declarations followed by method lookups
SpecRuntime == InitRuntime /\ [][NextRuntime]_vars

NextCompare ==
    \/ DefineComparedClass
    \/ CallEqual \/ CallNotEqual \/ CallLess
    \/ CallGreater \/ CallLessOrEqual \/ CallGreaterOrEqual

\* Class declarations followed by comparisons
SpecCompare == InitRuntime /\ [][NextCompare]_vars

NextCall == DefineComparedClass \/ CallHasMethod \/ CallCall \/ CallIsTrue

\* Class declarations followed by method calls on instances and truth tests
SpecCall == InitRuntime /\ [][NextCall]_vars

----------------------------------------------------------------------------
(* ParseInputStream as a function of the input, for statements that compare *)
(* the token vectors of two inputs.                                         *)

\* The while (istr) loop run to its end; an iteration that changes nothing
\* repeats for ever, which is reported as err = "hang".
RECURSIVE WhileLoop(_, _, _)
WhileLoop(in, L, junk) ==
    IF ~StreamOk(L.s) \/ L.err # "" THEN L
    ELSE LET r == LoopBody(in, L, junk) IN
         IF r = L THEN [L EXCEPT !.err = "hang"] ELSE WhileLoop(in, r, junk)

\* Lexer::ParseInputStream: the token vector, or the exception
ParseInputStream(in, junk) ==
    LET L == WhileLoop(in, [s |-> TrimSpaces(in, NewStream), tokens |-> <<>>,
                            indent |-> 0, err |-> ""], junk)
    IN  IF L.err # "" THEN [err |-> L.err, tokens |-> <<>>]
        ELSE [err |-> "", tokens |-> Finalize(L.tokens, L.indent)]

----------------------------------------------------------------------------
(* Helpers of the statements below *)

Count(type, toks) == Cardinality({i \in 1..Len(toks) : toks[i].type = type})

Max(a, b) == IF a > b THEN a ELSE b
Min(a, b) == IF a < b THEN a ELSE b

\* The first byte of each line of `in` that a '\n' ends
LineStarts(in) ==
    {p \in 1..Len(in) : (p = 1 \/ in[p - 1] = LF)
                        /\ \E e \in p..Len(in) : in[e] = LF}

\* The index of the '\n' that ends the line starting at p
LineEnd(in, p) == CHOOSE e \in p..Len(in) :
                      in[e] = LF /\ \A j \in p..(e - 1) : in[j] # LF

\* The line starting at p holds only spaces, or only spaces and a comment
BlankLine(in, p) == \A j \in p..(LineEnd(in, p) - 1) : in[j] = SPACE
CommentLine(in, p) ==
    \E h \in p..(LineEnd(in, p) - 1) :
        in[h] = HASH /\ \A j \in p..(h - 1) : in[j] = SPACE

\* `in` without the line starting at p
DeleteLine(in, p) ==
    SubSeq(in, 1, p - 1) \o SubSeq(in, LineEnd(in, p) + 1, Len(in))

----------------------------------------------------------------------------
(* C1 *)

\* C1: in ParseInputStream's main loop every iteration either consumes at
\* least one input byte, or ends the loop, or raises an error, so that
\* construction always terminates, also on bytes no sub-parser recognises.
C1_IterationProgresses ==
    (pc = "loop" /\ StreamOk(istr)) =>
        \A junk \in JunkBytes :
            LET r == LoopBody(input, Cur, junk) IN
            r.s.pos > istr.pos \/ ~StreamOk(r.s) \/ r.err # ""

----------------------------------------------------------------------------
(* C2 *)

\* The first class, from c toward the root of its chain, that declares
\* `name` among its own methods; 0 if none does
RECURSIVE FirstDeclaring(_, _, _)
FirstDeclaring(cs, c, name) ==
    IF c = 0 THEN 0
    ELSE IF \E i \in 1..Len(cs[c].methods_) : cs[c].methods_[i].name = name
         THEN c
    ELSE FirstDeclaring(cs, cs[c].parent_, name)

\* C2: on every inheritance chain GetMethod(m) on the most derived class
\* returns the method named m of the first class, scanning toward the root,
\* that declares m among its own methods, and null only if no class of the
\* chain declares m; a method declared only by a grandparent is found.
C2_GetMethodScansTheChain ==
    rt.op = "GetMethod" =>
        IF FirstDeclaring(classes, rt.self, rt.arg) = 0 THEN rt.res = nullptr
        ELSE /\ rt.res.cls = FirstDeclaring(classes, rt.self, rt.arg)
             /\ Deref(classes, rt.res).name = rt.arg

----------------------------------------------------------------------------
(* C3 *)

\* C3: when the left operand is an instance of a class that has __lt__ of
\* arity 1 and no __eq__, and __lt__ returns False, Greater returns false
\* and LessOrEqual returns a boolean, whatever the right operand is.
C3_OnlyLtGivesDerivedRelations ==
    (/\ rt.op \in {"Greater", "LessOrEqual"}
     /\ rt.self.kind = "ClassInstance"
     /\ HasMethod(classes, rt.self.cls, "__lt__", 1)
     /\ FirstDeclaring(classes, rt.self.cls, "__eq__") = 0
     /\ rt.calls # <<>>
     /\ rt.calls[1].result = Bool(FALSE))
    => /\ rt.res \in {"true", "false"}
       /\ rt.op = "Greater" => rt.res = "false"

----------------------------------------------------------------------------
(* C4 *)

\* C4: every failure of Lexer construction is signalled with the single
\* error kind LexerError.
C4_OnlyLexerError == pc = "error" => thrown = "LexerError"

----------------------------------------------------------------------------
(* C5 *)

\* This step consumed the '\n' before a line of n leading spaces that is
\* neither blank nor a comment, and the spaces.
IndentedLineStep(n) ==
    /\ pc = "loop" /\ pc' = "loop"
    /\ istr'.pos - n >= 1
    /\ istr'.pos - n > istr.pos
    /\ input[istr'.pos - n] = LF
    /\ \A j \in (istr'.pos - n + 1)..istr'.pos : input[j] = SPACE
    /\ istr'.pos < Len(input)
    /\ input[istr'.pos + 1] \notin {SPACE, LF, HASH}

\* C5: after the indentation of a non-blank, non-comment line of n leading
\* spaces the depth is floor(n / 2), whatever it was: the step emits exactly
\* the Indent or Dedent tokens that make up the difference, also for odd n.
C5_DepthIsHalfTheSpaces ==
    [][\A n \in 0..Len(input) :
          IndentedLineStep(n) =>
              /\ global_indent_counter_' = n \div 2
              /\ Count("Indent", tokens_') - Count("Indent", tokens_)
                    = Max(n \div 2 - global_indent_counter_, 0)
              /\ Count("Dedent", tokens_') - Count("Dedent", tokens_)
                    = Max(global_indent_counter_ - n \div 2, 0)]_vars

----------------------------------------------------------------------------
(* C6 *)

\* C6: deleting from the input a line after the first that is blank (only
\* spaces, then '\n') or holds only spaces and a '#' comment does not change
\* the emitted token vector: such a line emits no Indent, no Dedent and no
\* Newline and leaves the depth as it was.
C6_BlankAndCommentLinesAreInvisible ==
    pc = "done" =>
        \A p \in LineStarts(input) :
            (p > 1 /\ (BlankLine(input, p) \/ CommentLine(input, p))) =>
                \E junk \in JunkBytes :
                    ParseInputStream(DeleteLine(input, p), junk)
                        = [err |-> "", tokens |-> tokens_]

----------------------------------------------------------------------------
(* C7 *)

\* The number of Dedent tokens right before the last token
RECURSIVE TrailingDedents(_, _)
TrailingDedents(toks, i) ==
    IF i >= 1 /\ toks[i].type = "Dedent" THEN 1 + TrailingDedents(toks, i - 1)
    ELSE 0

\* C7 as stated: exactly one Eof, the last token, and unless the vector is
\* just [Eof] the token immediately before Eof is a Newline.
C7_NewlineRightBeforeEof ==
    pc = "done" =>
        /\ Count("Eof", tokens_) = 1
        /\ tokens_[Len(tokens_)].type = "Eof"
        /\ Len(tokens_) > 1 => tokens_[Len(tokens_) - 1].type = "Newline"

\* C7, amended: exactly one Eof, the last token; unless the vector is just
\* [Eof], Eof is preceded by the Dedent tokens that close the indentation
\* still open at the end of the input (none at depth 0), and the token
\* before those is a Newline.
C7_NewlineThenDedentsThenEof ==
    pc = "done" =>
        LET n == Len(tokens_)
            k == TrailingDedents(tokens_, n - 1)
        IN  /\ Count("Eof", tokens_) = 1
            /\ tokens_[n].type = "Eof"
            /\ n > 1 => (n - 1 - k >= 1 /\ tokens_[n - 1 - k].type = "Newline")
            /\ k = Count("Indent", tokens_)
                   - Count("Dedent", SubSeq(tokens_, 1, n - 1 - k))

\* A Dedent stands between the last Newline and Eof
C7_Witness ==
    /\ pc = "done"
    /\ Len(tokens_) >= 3
    /\ tokens_[Len(tokens_) - 1].type = "Dedent"

----------------------------------------------------------------------------
(* C8 *)

\* C8: in every prefix of the vector the Dedent tokens do not outnumber the
\* Indent tokens, the depth counter is Indents minus Dedents emitted so far,
\* and for every accepted input the two counts are equal (depth 0 at Eof).
C8_IndentsBalanced ==
    /\ pc \in {"loop", "done"} =>
          \A i \in 0..Len(tokens_) :
              Count("Dedent", SubSeq(tokens_, 1, i))
                  <= Count("Indent", SubSeq(tokens_, 1, i))
    /\ pc = "loop" =>
          global_indent_counter_
              = Count("Indent", tokens_) - Count("Dedent", tokens_)
    /\ pc = "done" =>
          /\ Count("Indent", tokens_) = Count("Dedent", tokens_)
          /\ global_indent_counter_ = 0

\* An accepted input with two levels opened and closed
C8_Witness ==
    /\ pc = "done"
    /\ Count("Indent", tokens_) >= 2
    /\ \E i \in 1..(Len(tokens_) - 1) :
          tokens_[i].type = "Dedent" /\ tokens_[i + 1].type # "Eof"
                                     /\ tokens_[i + 1].type # "Dedent"

----------------------------------------------------------------------------
(* C9 *)

\* C9: at every point of tokenisation and in the final vector no two
\* adjacent tokens are both Newline, and the vector never starts with one.
C9_NoAdjacentNewlines ==
    /\ \A i \in 1..(Len(tokens_) - 1) :
          ~(tokens_[i].type = "Newline" /\ tokens_[i + 1].type = "Newline")
    /\ tokens_ # <<>> => tokens_[1].type # "Newline"

\* An accepted input with a statement, an empty line and another statement,
\* and one that starts with '\n'
C9_Witness ==
    /\ pc = "done"
    /\ Count("Newline", tokens_) >= 2
    /\ \E i \in 2..(Len(input) - 1) : input[i] = LF /\ input[i + 1] = LF

----------------------------------------------------------------------------
(* C10 *)

\* C10: on a constructed lexer the cursor always points at a token of the
\* vector; each NextToken moves it forward by exactly one position unless
\* it is on the last token, where it stays, so it is min(1 + calls, length)
\* and never moves back; after length - 1 calls NextToken and CurrentToken
\* return Eof.
C10_CursorStaysInVector ==
    pc = "done" =>
        /\ current_token_it_ \in 1..Len(tokens_)
        /\ current_token_it_ = Min(1 + next_calls, Len(tokens_))
        /\ next_calls >= Len(tokens_) - 1 =>
              /\ tokens_[current_token_it_] = Tok("Eof")
              /\ ret.op \in {"NextToken", "CurrentToken"} => ret.tok = Tok("Eof")
        /\ ret.op \in {"NextToken", "CurrentToken"} =>
              ret.tok = tokens_[current_token_it_]

\* NextToken was called on the last token of a vector of several tokens
C10_Witness ==
    /\ pc = "done"
    /\ Len(tokens_) >= 3
    /\ next_calls > Len(tokens_) - 1
    /\ ret.op = "NextToken"

----------------------------------------------------------------------------
(* C11 *)

\* The underlying values of two handles of the same built-in kind are equal
SameValue(a, b) ==
    IF a.kind = "Number" THEN a.number = b.number
    ELSE IF a.kind = "String" THEN a.string = b.string
    ELSE a.bool = b.bool

BuiltinKinds == {"Number", "String", "Bool"}

\* The comparison executed exactly one body: the method `name` of the class
\* of the left operand, with self and the one parameter bound
CalledOnly(name) ==
    /\ Len(rt.calls) = 1
    /\ rt.calls[1].method = GetMethod(classes, rt.self.cls, name)
    /\ Deref(classes, rt.calls[1].method).name = name
    /\ rt.calls[1].closure["self"] = rt.self

\* C11: Equal resolves in a fixed order: both handles empty give true; both
\* Number, both String or both Bool give the equality of the values; else
\* a ClassInstance on the left whose class has __eq__ of arity 1 gives the
\* result of calling lhs.__eq__(rhs); anything else is a runtime error, so
\* only the left operand's method is consulted.  NotEqual is the negation
\* with the same errors.
C11_EqualResolutionOrder ==
    rt.op \in {"Equal", "NotEqual"} =>
        LET eq == IF rt.op = "Equal" THEN rt.res
                  ELSE IF rt.res = "true" THEN "false"
                  ELSE IF rt.res = "false" THEN "true"
                  ELSE rt.res
        IN  IF rt.self.kind = "None" /\ rt.arg.kind = "None"
            THEN eq = "true" /\ rt.calls = <<>>
            ELSE IF rt.self.kind \in BuiltinKinds /\ rt.arg.kind = rt.self.kind
            THEN eq = BoolStr(SameValue(rt.self, rt.arg)) /\ rt.calls = <<>>
            ELSE IF rt.self.kind = "ClassInstance"
                    /\ HasMethod(classes, rt.self.cls, "__eq__", 1)
            THEN /\ CalledOnly("__eq__")
                 /\ rt.calls[1].result.kind = "Bool" =>
                        eq = BoolStr(rt.calls[1].result.bool)
            ELSE eq = "runtime_error" /\ rt.calls = <<>>

\* NotEqual of a Number and an instance whose class has __eq__ has failed
C11_Witness ==
    /\ rt.op = "NotEqual"
    /\ rt.self.kind = "Number"
    /\ rt.arg.kind = "ClassInstance"
    /\ HasMethod(classes, rt.arg.cls, "__eq__", 1)
    /\ rt.res = "runtime_error"

----------------------------------------------------------------------------
(* C12 *)

----------------------------------------------------------------------------
(* C13 *)

\* The position after the comment that starts at i: after its '\n', or past
\* the end of `in`
AfterComment(in, i) ==
    IF \E e \in i..Len(in) : in[e] = LF THEN LineEnd(in, i) + 1 ELSE Len(in) + 1

\* Reading `in` from position i as a sequence of string literals, comments
\* and other bytes, the end of the input is reached after an opening quote
\* and before its closing quote; open is that quote, 0 outside a literal.
\* A line end or an unknown escape inside a literal ends the reading.
RECURSIVE EndsInsideString(_, _, _)
EndsInsideString(in, i, open) ==
    IF i > Len(in) THEN open # 0
    ELSE IF open = 0
         THEN IF in[i] = HASH THEN EndsInsideString(in, AfterComment(in, i), 0)
              ELSE IF in[i] \in {SQUOTE, DQUOTE}
                   THEN EndsInsideString(in, i + 1, in[i])
              ELSE EndsInsideString(in, i + 1, 0)
    ELSE IF in[i] = open THEN EndsInsideString(in, i + 1, 0)
    ELSE IF in[i] = BACKSLASH
         THEN IF i + 1 > Len(in) THEN TRUE
              ELSE IF in[i + 1] \in DOMAIN Escapes
                   THEN EndsInsideString(in, i + 2, open)
              ELSE FALSE
    ELSE IF in[i] \in {LF, CR} THEN FALSE
    ELSE EndsInsideString(in, i + 1, open)

\* C13: when the input ends after an opening quote and before the matching
\* closing quote, whatever stands between them, construction does not
\* succeed: it fails, and with LexerError.
C13_UnterminatedStringFails ==
    EndsInsideString(input, 1, 0) =>
        /\ pc # "done"
        /\ pc = "error" => thrown = "LexerError"

----------------------------------------------------------------------------
(* C14 *)

IndentTypes == {"Indent", "Dedent"}

\* C14: an Indent or Dedent stands at the very start of the vector or right
\* after a Newline or after another Indent or Dedent, so every maximal run
\* of them follows a Newline or opens the vector and none follows an Id,
\* Number, String, Char, keyword or compound operator; and none is emitted
\* before the first '\n' of the input is consumed, so leading spaces on
\* the first line produce no Indent.
C14_IndentsFollowNewline ==
    /\ \A i \in 2..Len(tokens_) :
          tokens_[i].type \in IndentTypes =>
              tokens_[i - 1].type \in IndentTypes \cup {"Newline"}
    /\ (\A j \in 1..Min(istr.pos, Len(input)) : input[j] # LF) =>
          \A i \in 1..Len(tokens_) : tokens_[i].type \notin IndentTypes

\* An accepted input with a run of two Indents after a Newline and a Dedent
\* later
C14_Witness ==
    /\ pc = "done"
    /\ \E i \in 2..(Len(tokens_) - 1) :
          /\ tokens_[i - 1].type = "Newline"
          /\ tokens_[i].type = "Indent"
          /\ tokens_[i + 1].type = "Indent"
    /\ Count("Dedent", tokens_) >= 2

----------------------------------------------------------------------------
(* C15 *)

\* a is a proper prefix of b, or at the first position where they differ
\* the byte of a is the smaller
Lexicographic(a, b) ==
    \/ Len(a) < Len(b) /\ \A i \in 1..Len(a) : a[i] = b[i]
    \/ \E k \in 1..Min(Len(a), Len(b)) :
          a[k] < b[k] /\ \A i \in 1..(k - 1) : a[i] = b[i]

\* Strict '<' on the underlying values of two handles of the same built-in
\* kind; false < true for Bool
SmallerValue(a, b) ==
    IF a.kind = "Number" THEN a.number < b.number
    ELSE IF a.kind = "String" THEN Lexicographic(a.string, b.string)
    ELSE a.bool = FALSE /\ b.bool = TRUE

\* C15: Less resolves in a fixed order: both Number, both String or both
\* Bool give strict '<' on the values; else a ClassInstance on the left
\* whose class has __lt__ of arity 1 gives the result of calling
\* lhs.__lt__(rhs); anything else is a runtime error.  There is no
\* both-empty case: Less, LessOrEqual and GreaterOrEqual of two empty
\* handles fail although Equal of them is true.
C15_LessResolutionOrder ==
    /\ rt.op = "Less" =>
          IF rt.self.kind \in BuiltinKinds /\ rt.arg.kind = rt.self.kind
          THEN rt.res = BoolStr(SmallerValue(rt.self, rt.arg)) /\ rt.calls = <<>>
          ELSE IF rt.self.kind = "ClassInstance"
                  /\ HasMethod(classes, rt.self.cls, "__lt__", 1)
          THEN /\ CalledOnly("__lt__")
               /\ rt.calls[1].result.kind = "Bool" =>
                      rt.res = BoolStr(rt.calls[1].result.bool)
          ELSE rt.res = "runtime_error" /\ rt.calls = <<>>
    /\ (rt.op \in {"Less", "LessOrEqual", "GreaterOrEqual"}
          /\ rt.self.kind = "None" /\ rt.arg.kind = "None")
          => rt.res = "runtime_error"
    /\ (rt.op = "Equal" /\ rt.self.kind = "None" /\ rt.arg.kind = "None")
          => rt.res = "true"

\* LessOrEqual of two empty handles has failed
C15_Witness ==
    /\ rt.op = "LessOrEqual"
    /\ rt.self.kind = "None"
    /\ rt.arg.kind = "None"
    /\ rt.res = "runtime_error"

----------------------------------------------------------------------------
(* C16 *)

\* C16: IsTrue returns true exactly for a Number other than 0, the Bool
\* true and a String of length > 0; it returns false, never an error, for
\* the empty handle, Number 0, Bool false, the empty String, every Class and
\* every ClassInstance, whatever methods its class defines.
C16_IsTrueOnlyForValues ==
    rt.op = "IsTrue" =>
        /\ rt.res \in {"true", "false"}
        /\ rt.calls = <<>>
        /\ rt.res = "true" <=>
              \/ rt.self.kind = "Number" /\ rt.self.number # 0
              \/ rt.self.kind = "Bool" /\ rt.self.bool
              \/ rt.self.kind = "String" /\ Len(rt.self.string) > 0
        /\ rt.self.kind \in {"None", "Class", "ClassInstance"} => rt.res = "false"

\* IsTrue has returned false for an instance of a class with __eq__ and
\* __lt__
C16_Witness ==
    /\ rt.op = "IsTrue"
    /\ rt.self.kind = "ClassInstance"
    /\ HasMethod(classes, rt.self.cls, "__eq__", 1)
    /\ HasMethod(classes, rt.self.cls, "__lt__", 1)
    /\ rt.res = "false"

----------------------------------------------------------------------------
(* C17 *)

\* Both operands of the recorded comparison are Numbers, Strings or Bools
SameBuiltinKind == rt.self.kind \in BuiltinKinds /\ rt.arg.kind = rt.self.kind

\* The recorded comparison is of a handle with itself
SameOperand ==
    \/ rt.self.kind = "None" /\ rt.arg.kind = "None"
    \/ SameBuiltinKind /\ SameValue(rt.self, rt.arg)

\* How many of the outcomes are "true"
TrueAmong(outcomes) == Cardinality({i \in DOMAIN outcomes : outcomes[i] = "true"})

\* C17: on the built-in kinds the comparisons agree with each other: for a
\* the empty handle, a Number, a String or a Bool, Equal(a, a) is true and
\* NotEqual(a, a) is false; for two handles of the same built-in kind Equal
\* is symmetric, exactly one of Less(a, b), Equal(a, b), Greater(a, b) is
\* true, and GreaterOrEqual(a, b) is Greater(a, b) or Equal(a, b).
C17_BuiltinComparisonsAgree ==
    \A result \in BodyResults, results \in [1..2 -> BodyResults], ub \in UBOutcomes :
        LET a == rt.self
            b == rt.arg
            less == Less(classes, a, b, result, ub).res
            equal == Equal(classes, a, b, result, ub).res
            greater == Greater(classes, a, b, results, ub).res
        IN  /\ (rt.op = "Equal" /\ SameOperand) => rt.res = "true"
            /\ (rt.op = "NotEqual" /\ SameOperand) => rt.res = "false"
            /\ (rt.op = "Equal" /\ SameBuiltinKind) =>
                   rt.res = Equal(classes, b, a, result, ub).res
            /\ (rt.op = "Less" /\ SameBuiltinKind) =>
                   TrueAmong(<<rt.res, equal, greater>>) = 1
            /\ (rt.op = "Greater" /\ SameBuiltinKind) =>
                   TrueAmong(<<less, equal, rt.res>>) = 1
            /\ (rt.op = "GreaterOrEqual" /\ SameBuiltinKind) =>
                   /\ rt.res \in {"true", "false"}
                   /\ rt.res = "true" <=> (greater = "true" \/ equal = "true")

\* Greater of the Strings "a" and "" has returned true
C17_Witness ==
    /\ rt.op = "Greater"
    /\ rt.self = String(<<97>>)
    /\ rt.arg = String(<<>>)
    /\ rt.res = "true"

----------------------------------------------------------------------------
(* C18 *)

\* The lexer state in which the iteration that starts in this state calls
\* ParseChars
AtParseChars(junk) == RunSteps(<<"ParseString", "ParseKeywords">>, input, Cur, junk)

\* ParseChars is called on L with the stream at a punctuation byte
AtPunctuation(L) ==
    /\ pc = "loop" /\ StreamOk(istr)
    /\ L.err = "" /\ Good(L.s)
    /\ L.s.pos < Len(input)
    /\ ispunct(input[L.s.pos + 1])

\* The byte the stream of L is at, and the one after it
ByteAt(L) == input[L.s.pos + 1]
ByteAfter(L) == IF L.s.pos + 2 <= Len(input) THEN input[L.s.pos + 2] ELSE EOF

\* ParseChars has taken L to `after`: n bytes consumed, the token tok emitted
Emits(L, after, n, tok) ==
    /\ after.err = ""
    /\ after.s.pos = L.s.pos + n
    /\ after.tokens = Append(L.tokens, tok)

\* What ParseChars is to do at the byte c of L
CompoundOrChar(L, after, c) ==
    IF c \in {EQUALS, BANG, LESS, GREATER} /\ ByteAfter(L) = EQUALS
    THEN Emits(L, after, 2, CASE c = EQUALS -> Tok("Eq")
                              [] c = BANG -> Tok("NotEq")
                              [] c = LESS -> Tok("LessOrEq")
                              [] c = GREATER -> Tok("GreaterOrEq"))
    ELSE Emits(L, after, 1, TokV("Char", c))

\* Every punctuation byte gives a token
AnyPunctuation(L) == AtPunctuation(L) => CompoundOrChar(L, ParseChars(input, L), ByteAt(L))

\* Every punctuation byte but '#' gives a token, and '#' a comment
PunctuationOrComment(L, after) ==
    AtPunctuation(L) =>
        IF ByteAt(L) = HASH
        THEN after.tokens = L.tokens /\ after.s.pos > L.s.pos
        ELSE CompoundOrChar(L, after, ByteAt(L))

\* C18 as stated: at every punctuation byte c, ParseChars consumes c and a
\* following '=' and emits Eq, NotEq, LessOrEq or GreaterOrEq when c is one
\* of '=', '!', '<', '>' and the next byte is '=', and otherwise consumes
\* only c and emits Char(c).
C18_EveryPunctuationGivesAToken ==
    \A junk \in JunkBytes : AnyPunctuation(AtParseChars(junk))

\* C18: at a punctuation byte c other than '#', ParseChars consumes c and
\* a following '=' and emits Eq, NotEq, LessOrEq or GreaterOrEq when c is
\* one of '=', '!', '<', '>' and the next byte is '=', and otherwise
\* consumes only c and emits Char(c); at '#' it emits no token and consumes
\* the comment.  Combining is greedy from the left: "===" gives Eq then
\* Char('='), and a '=' at the end of the stream gives Char('=').
C18_CompoundsByOneByteLookahead ==
    /\ \A junk \in JunkBytes :
           PunctuationOrComment(AtParseChars(junk),
                                ParseChars(input, AtParseChars(junk)))
    /\ (pc = "done" /\ input = <<EQUALS, EQUALS, EQUALS>>) =>
           tokens_ = <<Tok("Eq"), TokV("Char", EQUALS), Tok("Newline"), Tok("Eof")>>
    /\ (pc = "done" /\ input = <<EQUALS>>) =>
           tokens_ = <<TokV("Char", EQUALS), Tok("Newline"), Tok("Eof")>>

\* The loop is at the third '=' of "===" with Eq emitted
C18_Witness ==
    /\ input = <<EQUALS, EQUALS, EQUALS>>
    /\ pc = "loop"
    /\ istr.pos = 2
    /\ tokens_ = <<Tok("Eq")>>
    /\ AtPunctuation(AtParseChars(0))

----------------------------------------------------------------------------
(* C19 *)

\* The i-th body the recorded comparison executed is the method `name` of
\* the class of the left operand, run on the left operand
IsCallOf(i, name) ==
    /\ rt.self.kind = "ClassInstance"
    /\ rt.calls[i].method = GetMethod(classes, rt.self.cls, name)
    /\ Deref(classes, rt.calls[i].method).name = name
    /\ rt.calls[i].closure["self"] = rt.self

\* C19: the comparisons run user methods in a fixed order.  Less and
\* GreaterOrEqual run at most one body, the left operand's __lt__; Equal and
\* NotEqual at most one, the left operand's __eq__; Greater and LessOrEqual
\* run the left operand's __lt__ first and then at most its __eq__, and not
\* when __lt__ returned True: a __lt__ that returned a Bool returned False
\* before __eq__ ran.  No other method and no method of the right operand
\* is run, and none twice.
C19_DerivedRelationsCallInOrder ==
    /\ rt.op \in {"Less", "GreaterOrEqual"} =>
           /\ Len(rt.calls) <= 1
           /\ Len(rt.calls) = 1 => IsCallOf(1, "__lt__")
    /\ rt.op \in {"Equal", "NotEqual"} =>
           /\ Len(rt.calls) <= 1
           /\ Len(rt.calls) = 1 => IsCallOf(1, "__eq__")
    /\ rt.op \in {"Greater", "LessOrEqual"} =>
           /\ Len(rt.calls) <= 2
           /\ Len(rt.calls) >= 1 => IsCallOf(1, "__lt__")
           /\ Len(rt.calls) = 2 =>
                  /\ IsCallOf(2, "__eq__")
                  /\ rt.calls[1].result # Bool(TRUE)
                  /\ rt.calls[1].result.kind = "Bool" => rt.calls[1].result = Bool(FALSE)

\* LessOrEqual of instances of two classes has run only the left operand's
\* __lt__, which returned True, though the class has __eq__ too
C19_Witness ==
    /\ rt.op = "LessOrEqual"
    /\ rt.self.kind = "ClassInstance"
    /\ rt.arg.kind = "ClassInstance"
    /\ rt.arg.cls # rt.self.cls
    /\ HasMethod(classes, rt.self.cls, "__eq__", 1)
    /\ HasMethod(classes, rt.arg.cls, "__lt__", 1)
    /\ Len(rt.calls) = 1
    /\ rt.calls[1].result = Bool(TRUE)
    /\ rt.res = "true"

----------------------------------------------------------------------------
(* C20 *)

\* ParseNewLine, and ParseIndent in it, has taken L to `after` without an
\* exception and with a depth that is not negative
IndentAccepted(L, after) ==
    L.err = "" => after.err = "" /\ after.indent >= 0

\* C20: the indent depth counter is >= 0 in every reachable state, and in
\* every iteration of the loop ParseIndent leaves a depth >= 0, so its
\* check for a negative depth never raises LexerError.
C20_DepthNeverNegative ==
    /\ global_indent_counter_ >= 0
    /\ (pc = "loop" /\ StreamOk(istr)) =>
           \A junk \in JunkBytes :
               IndentAccepted(BeforeNewLine(input, Cur, junk),
                              ParseNewLine(input, BeforeNewLine(input, Cur, junk)))

\* A line of one leading space has closed two levels at once: the depth is
\* back to 0 and the last two tokens are Dedents
C20_Witness ==
    /\ pc = "loop"
    /\ global_indent_counter_ = 0
    /\ Len(tokens_) >= 2
    /\ tokens_[Len(tokens_)].type = "Dedent"
    /\ tokens_[Len(tokens_) - 1].type = "Dedent"
    /\ istr.pos >= 2
    /\ input[istr.pos] = SPACE
    /\ input[istr.pos - 1] = LF

----------------------------------------------------------------------------
(* C21 *)

\* The tokens a and b have the same variant and the same payload
SameToken(a, b) ==
    /\ a.type = b.type
    /\ DOMAIN a = DOMAIN b
    /\ \A f \in DOMAIN a : a[f] = b[f]

\* The call returned in this step succeeded exactly when the token at
\* position `it` has the expected variant (and payload, when one was given)
ChecksTokenAt(it) ==
    IF ret'.op \in {"Expect", "ExpectNext"}
    THEN /\ ret'.ok <=> tokens_[it].type = ret'.arg.type
         /\ ret'.ok => ret'.tok = tokens_[it]
    ELSE ret'.ok <=> SameToken(tokens_[it], ret'.arg)

\* C21: Expect<T>() and Expect<T>(value) leave the cursor and the token
\* vector as they are whether they succeed or raise LexerError, and succeed
\* exactly when the current token has variant T, respectively equals
\* T{value}.  ExpectNext<T>() and ExpectNext<T>(value) first move the cursor
\* as NextToken does, one token forward unless it is on the last, and then
\* check the token it is on, so the cursor has moved also when they raise.
C21_ExpectFrame ==
    [][/\ ret'.op \in {"Expect", "ExpectValue"} =>
             /\ current_token_it_' = current_token_it_
             /\ tokens_' = tokens_
             /\ ChecksTokenAt(current_token_it_)
       /\ ret'.op \in {"ExpectNext", "ExpectNextValue"} =>
             /\ current_token_it_' = Min(current_token_it_ + 1, Len(tokens_))
             /\ tokens_' = tokens_
             /\ ChecksTokenAt(current_token_it_')]_vars

\* The first call on a constructed lexer, ExpectNext, has raised LexerError
\* and the cursor is on the second token
C21_Witness ==
    /\ pc = "done"
    /\ ret.op \in {"ExpectNext", "ExpectNextValue"}
    /\ ~ret.ok
    /\ next_calls = 1
    /\ current_token_it_ = 2

====
